---------------------------- MODULE Spec2Model ----------------------------
(***************************************************************************)
(* A model of anchor-uploader: AnchorUploader.run (anchor_uploader.py) and *)
(* AnchorSession (anchor_session.py).                                      *)
(*                                                                         *)
(* Python strings are sequences of one-character strings, so that          *)
(* os.path.basename, os.path.splitext and str.find are computed rather     *)
(* than assumed.  The remote platform is the environment: every request    *)
(* is answered with a status code and a body chosen nondeterministically.  *)
(***************************************************************************)
EXTENDS Integers, Sequences, FiniteSets, TLC

VARIABLES
    fs,                     \* rootDir -> the file paths os.walk yields there
    library,                \* remote: username -> the account's library items
    drafts,                 \* remote: username -> the episode drafts created
    pc,                     \* the position of the run
    pi,                     \* index of the profile in hand (run's outer loop)
    profileLog,             \* one entry per profile the outer loop has finished
    audio_file_paths,       \* run: result of _list_audio_files
    uploaded_audio_files,   \* run: result of list_uploaded_files
    audio_files_to_process, \* run: result of _find_missing_audio_streams
    skipLog,                \* the "already uploaded" info lines of the filter
    fi,                     \* index of the file in hand (run's inner loop)
    results,                \* per file of the profile in hand: how it ended
    wf,                     \* locals of save_file_as_draft for the file in hand
    trace,                  \* requests and sleeps of the file in hand
    ptrace,                 \* requests of the profile in hand outside any file
    lastError               \* the error logged in the iteration in hand

remoteVars  == <<library, drafts>>
profileVars == <<audio_file_paths, uploaded_audio_files,
                 audio_files_to_process, skipLog>>
fileVars    == <<fi, results, wf, trace>>
vars == <<fs, library, drafts, pc, pi, profileLog, audio_file_paths,
          uploaded_audio_files, audio_files_to_process, skipLog, fi, results,
          wf, trace, ptrace, lastError>>

-----------------------------------------------------------------------------
(* Bounds of the model.                                                    *)

\* most consecutive 'uploaded' answers the platform gives to one request
MaxPolls == 2
\* most listings in which the platform shows an item as not yet 'finished'
MaxLibWaits == 2
\* longest list of local paths, and of captions, given to the filter alone
MaxFiles == 2
MaxCaptions == 2

\* sleep(10) of the status polling loop and of the transformation loop
PollBackoff == 10
LibraryBackoff == 10

-----------------------------------------------------------------------------
(* Strings.                                                                *)

\* s[i:] of Python, for a 0-based i in 0..len(s)
Drop(s, i) == SubSeq(s, i + 1, Len(s))
\* s[:i] of Python
Take(s, i) == SubSeq(s, 1, i)

\* s.rfind(c) for a single character c: the highest 0-based index, or -1
RFind(s, c) ==
    LET hits == {i \in 1..Len(s) : s[i] = c}
    IN  IF hits = {} THEN -1
        ELSE (CHOOSE i \in hits : \A j \in hits : j <= i) - 1

\* s.find(sub): the lowest 0-based index at which sub occurs in s, or -1
StrFindOffByOne(s, sub) ==
    LET hits == {i \in 1..(Len(s) - Len(sub)) :
                    SubSeq(s, i + 1, i + Len(sub)) = sub}
    IN  IF hits = {} THEN -1
        ELSE CHOOSE i \in hits : \A j \in hits : i <= j
StrFind(s, sub) ==
    LET hits == {i \in 0..(Len(s) - Len(sub)) :
                    SubSeq(s, i + 1, i + Len(sub)) = sub}
    IN  IF hits = {} THEN -1
        ELSE CHOOSE i \in hits : \A j \in hits : i <= j

\* os.path.basename (posixpath): everything after the last '/'
Basename(p) == Drop(p, RFind(p, "/") + 1)

\* os.path.splitext (genericpath._splitext): split at the last '.' unless it
\* lies before the last '/', or only dots lie between the '/' and it
Splitext(p) ==
    LET sepIndex == RFind(p, "/")
        dotIndex == RFind(p, ".")
        \* the while loop: some character in sepIndex+1 .. dotIndex-1 is no dot
        nonDot == \E k \in (sepIndex + 1)..(dotIndex - 1) : p[k + 1] # "."
    IN  IF dotIndex > sepIndex /\ nonDot
        THEN <<Take(p, dotIndex), Drop(p, dotIndex)>>
        ELSE <<p, <<>>>>

\* audio_file_name of _find_missing_audio_streams, file_name of save_file_as_draft
FileName(path) == Splitext(Basename(path))[1]
FileExtension(path) == Splitext(Basename(path))[2]

\* mimetypes.guess_type(path)[0]: by the extension; None is <<>>, a type t is <<t>>
TypesMap(ext) ==
    CASE ext = <<".", "m">> -> <<[type |-> "audio", subtype |-> "mpeg"]>>
      [] ext = <<".", "w">> -> <<[type |-> "audio", subtype |-> "x-wav"]>>
      [] ext = <<".", "t">> -> <<[type |-> "text", subtype |-> "plain"]>>
      [] OTHER -> <<>>
GuessType(path) == TypesMap(Splitext(path)[2])

\* mime_type.startswith('audio/'), for a mime_type that is not None
StartsWithAnyType(mime_type) == mime_type[1].type \in {"audio", "text"}
StartsWithAudio(mime_type) == mime_type[1].type = "audio"

-----------------------------------------------------------------------------
(* AnchorUploader._find_missing_audio_streams                              *)

\* the inner loop: the first caption (in list order) that contains the name,
\* as an index into the captions, or 0 when the loop ends without a break
FirstMatch(audio_file_name, captions) ==
    LET hits == {k \in 1..Len(captions) :
                    StrFind(captions[k], audio_file_name) >= 0}
    IN  IF hits = {} THEN 0 ELSE CHOOSE k \in hits : \A j \in hits : k <= j

RECURSIVE FindMissingFrom(_, _, _)
FindMissingFrom(paths, captions, n) ==
    IF n > Len(paths) THEN <<>>
    ELSE LET has_matching_audio == FirstMatch(FileName(paths[n]), captions) > 0
             rest == FindMissingFrom(paths, captions, n + 1)
         IN  IF has_matching_audio = FALSE THEN <<paths[n]>> \o rest ELSE rest

FindMissingKeepsAll(paths, captions) == paths
FindMissingAudioStreams(paths, captions) == FindMissingFrom(paths, captions, 1)

\* the info line logged at each skip: the path and the caption that matched
RECURSIVE SkipLines(_, _, _)
SkipLines(paths, captions, n) ==
    IF n > Len(paths) THEN <<>>
    ELSE LET k == FirstMatch(FileName(paths[n]), captions)
             rest == SkipLines(paths, captions, n + 1)
         IN  IF k > 0
             THEN <<[path |-> paths[n], caption |-> captions[k]]>> \o rest
             ELSE rest

-----------------------------------------------------------------------------
(* The configuration, the local files and the remote accounts.             *)

\* self._config.profiles
Profiles ==
    << [anchorUsername |-> "u1", anchorPassword |-> "p1", rootDir |-> "d"],
       [anchorUsername |-> "u2", anchorPassword |-> "p2", rootDir |-> "e"] >>
RootDirs == {Profiles[i].rootDir : i \in 1..Len(Profiles)}
Usernames == {Profiles[i].anchorUsername : i \in 1..Len(Profiles)}

\* local paths: d/a.m  d/ab.m  d/s/a.w  d/A.m  d/n.t  d/x  e/c.m
PathA   == <<"d", "/", "a", ".", "m">>
PathAB  == <<"d", "/", "a", "b", ".", "m">>
PathSA  == <<"d", "/", "s", "/", "a", ".", "w">>
PathUpA == <<"d", "/", "A", ".", "m">>
PathN   == <<"d", "/", "n", ".", "t">>
PathX   == <<"d", "/", "x">>
PathC   == <<"e", "/", "c", ".", "m">>
PathDot == <<"d", ".", "e", "/", ".", "a">>

\* what os.walk yields under each root, in walk order
FsChoices ==
    { [r \in RootDirs |-> IF r = "d" THEN d ELSE <<PathC>>] :
        d \in { <<PathAB, PathA>>,
                <<PathA, PathN, PathSA>>,
                <<PathA, PathX>>,
                <<PathUpA, PathAB>> } }

\* captions: ""  "a("  "xab"  "A"  "b"  ".a"
Captions ==
    { <<>>, <<"a", "(">>, <<"x", "a", "b">>, <<"A">>, <<"b">>, <<".", "a">> }

\* identifiers of the items the library holds when the run starts
OldId(n) == <<0, n, "audio">>

Item(caption, audioId) == [caption |-> caption, audioId |-> audioId]

\* the library of each account when the run starts
LibraryChoices ==
    { [u \in Usernames |-> IF u = "u1" THEN l ELSE <<>>] :
        l \in { <<>>,
                <<Item(<<"a", "(">>, OldId(1))>>,
                <<Item(<<"b">>, OldId(1)), Item(<<"x", "a", "b">>, OldId(2))>> } }

\* status codes the platform answers with
StatusCodes == {200, 500}
\* request.state values of the poll response
PollStates == {"uploaded", "processed", "failed", "accepted"}
\* audioTransformationStatus values of a library item
StatusValues == {"processing", "failed", "finished"}
\* access-control-allow-methods of the preflight response; <<>> is no header,
\* <<h>> the header h:  "GET"  "GET,PUT"
AllowMethods ==
    { <<>>,
      << <<"G", "E", "T">> >>,
      << <<"G", "E", "T", ",", "P", "U", "T">> >> }

\* identifiers the platform hands out: distinct per profile, file and kind;
\* <<>> stands for no identifier
FreshId(kind) == <<pi, fi, kind>>

\* r.status_code < 200 or r.status_code >= 300
Failed2xx(code) == code < 200 \/ code >= 300

-----------------------------------------------------------------------------
(* Records of the model.                                                   *)

NoError == [kind |-> "none", what |-> "", code |-> 0, state |-> ""]
\* raise Exception(f'... status code: {r.status_code}')
StatusError(what, code) ==
    [kind |-> "status", what |-> what, code |-> code, state |-> ""]
\* raise Exception(f'Unhandled audio stream state: {state}')
UnhandledState(state) ==
    [kind |-> "unhandled_state", what |-> "poll", code |-> 0, state |-> state]
OtherError(kind, what) ==
    [kind |-> kind, what |-> what, code |-> 0, state |-> ""]

NoWf ==
    [ path |-> <<>>, file_name |-> <<>>, mime_type |-> <<>>,
      upload_url |-> <<>>, request_uuid |-> <<>>,
      processing_request_uuid |-> <<>>, audio_id |-> <<>>, audio_data |-> <<>>, listing |-> <<>>,
      polls |-> 0, waits |-> 0, failed_logged |-> FALSE,
      not_found_logged |-> FALSE ]

\* one request (or sleep) of the file in hand: the operation, the identifier
\* in its URL, the status code of the answer, what the answer said, the
\* identifier it returned, and the caption or title sent
Ev(op, arg, code, res, ret, text) ==
    [ op |-> op, file |-> wf.path, arg |-> arg, code |-> code, res |-> res,
      ret |-> ret, text |-> text ]
\* sleep(seconds), as the events it adds to the trace
NoBackoff(seconds) == <<>>
Sleep(seconds) == <<Ev("sleep", <<>>, seconds, "", <<>>, <<>>)>>

PEv(op, code, token) == [op |-> op, code |-> code, token |-> token]

Profile == Profiles[pi]
User == Profile.anchorUsername

\* what the profile log keeps of the files' results: the path and the outcome
Outcomes(rs) ==
    [k \in 1..Len(rs) |-> [path |-> rs[k].path, outcome |-> rs[k].outcome]]

-----------------------------------------------------------------------------
(* Leaving an iteration by an exception.                                   *)

\* run, lines 28-29: the inner except logs and the inner loop goes on
FileFailEndsProfile(err, events, locals) ==
    /\ trace' = trace \o events
    /\ wf' = locals
    /\ lastError' = err
    /\ results' = Append(results,
                         [path |-> wf.path, outcome |-> "error", error |-> err])
    /\ profileLog' = Append(profileLog,
           [ username |-> User, outcome |-> "error", stage |-> pc,
             to_process |-> audio_files_to_process,
             captions |-> uploaded_audio_files,
             results |-> Outcomes(Append(results, [path |-> wf.path,
                             outcome |-> "error", error |-> err])) ])
    /\ pc' = "profile_loop"
    /\ UNCHANGED <<fs, remoteVars, pi, profileVars, fi, ptrace>>
FileFailRetries(err, events, locals) ==
    /\ trace' = trace \o events
    /\ wf' = locals
    /\ lastError' = err
    /\ IF Len(trace) < 4
       THEN /\ pc' = pc
            /\ UNCHANGED results
       ELSE /\ results' = Append(results, [path |-> wf.path,
                                  outcome |-> "error", error |-> err])
            /\ pc' = "file_loop"
    /\ UNCHANGED <<fs, remoteVars, pi, profileLog, profileVars, fi, ptrace>>
FileFail(err, events, locals) ==
    /\ trace' = trace \o events
    /\ wf' = locals
    /\ lastError' = err
    /\ results' = Append(results,
                         [path |-> wf.path, outcome |-> "error", error |-> err])
    /\ pc' = "file_loop"
    /\ UNCHANGED <<fs, remoteVars, pi, profileLog, profileVars, fi, ptrace>>

\* run, lines 31-32: the outer except logs and the outer loop goes on
ProfileFailEndsRun(err, events) ==
    /\ ptrace' = ptrace \o events
    /\ lastError' = err
    /\ profileLog' = Append(profileLog,
           [ username |-> User, outcome |-> "error", stage |-> pc,
             to_process |-> <<>>, captions |-> <<>>, results |-> <<>> ])
    /\ pc' = "done"
    /\ UNCHANGED <<fs, remoteVars, pi, profileVars, fileVars>>
ProfileFail(err, events) ==
    /\ ptrace' = ptrace \o events
    /\ lastError' = err
    /\ profileLog' = Append(profileLog,
           [ username |-> User, outcome |-> "error", stage |-> pc,
             to_process |-> <<>>, captions |-> <<>>, results |-> <<>> ])
    /\ pc' = "profile_loop"
    /\ UNCHANGED <<fs, remoteVars, pi, profileVars, fileVars>>

-----------------------------------------------------------------------------
(* AnchorUploader.run: the outer loop and the session.                     *)

\* for profile in self._config.profiles
NextProfile ==
    /\ pc = "profile_loop"
    /\ IF pi < Len(Profiles)
       THEN /\ pi' = pi + 1
            /\ pc' = "csrf"
       ELSE /\ pc' = "done"
            /\ UNCHANGED pi
    /\ audio_file_paths' = <<>>
    /\ uploaded_audio_files' = <<>>
    /\ audio_files_to_process' = <<>>
    /\ skipLog' = <<>>
    /\ fi' = 0
    /\ results' = <<>>
    /\ wf' = NoWf
    /\ trace' = <<>>
    /\ ptrace' = <<>>
    /\ lastError' = NoError
    /\ UNCHANGED <<fs, remoteVars, profileLog>>

\* AnchorSession._csrf
Csrf ==
    /\ pc = "csrf"
    /\ \E code \in StatusCodes :
         IF Failed2xx(code)
         THEN ProfileFail(StatusError("csrf", code), <<PEv("csrf", code, <<>>)>>)
         ELSE /\ ptrace' = Append(ptrace, PEv("csrf", code, FreshId("token")))
              /\ pc' = "login"
              /\ UNCHANGED <<fs, remoteVars, pi, profileLog, profileVars,
                             fileVars, lastError>>

\* the token _csrf returned to _login
CsrfTokenMissing == <<>>
CsrfToken == ptrace[Len(ptrace)].token

\* AnchorSession._login, after _csrf
Login ==
    /\ pc = "login"
    /\ \E code \in StatusCodes :
         IF Failed2xx(code)
         THEN ProfileFail(StatusError("login", code),
                          <<PEv("login", code, CsrfToken)>>)
         ELSE /\ ptrace' = Append(ptrace, PEv("login", code, CsrfToken))
              /\ pc' = "list_files"
              /\ UNCHANGED <<fs, remoteVars, pi, profileLog, profileVars,
                             fileVars, lastError>>

\* AnchorUploader._list_audio_files: mime_type.startswith raises on None
ListRaises(paths) == \E k \in 1..Len(paths) : GuessType(paths[k]) = <<>>
ListAudioFilesOf(paths) ==
    SelectSeq(paths, LAMBDA p : StartsWithAudio(GuessType(p)))

ListAudioFiles ==
    /\ pc = "list_files"
    /\ IF ListRaises(fs[Profile.rootDir])
       THEN ProfileFail(OtherError("attribute_error", "list_files"), <<>>)
       ELSE /\ audio_file_paths' = ListAudioFilesOf(fs[Profile.rootDir])
            /\ pc' = "library"
            /\ UNCHANGED <<fs, remoteVars, pi, profileLog,
                           uploaded_audio_files, audio_files_to_process,
                           skipLog, fileVars, ptrace, lastError>>

\* AnchorSession.list_uploaded_files: [i['caption'] for i in items]
CaptionsOf(items) == [k \in 1..Len(items) |-> items[k].caption]

\* run, lines 22-23: list_uploaded_files, then _find_missing_audio_streams
FetchLibrary ==
    /\ pc = "library"
    /\ \E code \in StatusCodes :
         IF Failed2xx(code)
         THEN ProfileFail(StatusError("library", code),
                          <<PEv("library", code, <<>>)>>)
         ELSE /\ ptrace' = Append(ptrace, PEv("library", code, <<>>))
              /\ uploaded_audio_files' = CaptionsOf(library[User])
              /\ audio_files_to_process' =
                    FindMissingAudioStreams(audio_file_paths,
                                            CaptionsOf(library[User]))
              /\ skipLog' = SkipLines(audio_file_paths,
                                      CaptionsOf(library[User]), 1)
              /\ pc' = "file_loop"
              /\ UNCHANGED <<fs, remoteVars, pi, profileLog, audio_file_paths,
                             fileVars, lastError>>

-----------------------------------------------------------------------------
(* AnchorUploader.run: the inner loop, and AnchorSession.save_file_as_draft *)

\* md5(file_basename).hexdigest() + file_extension
SafeFileName(path) ==
    [md5_of |-> Basename(path), extension |-> FileExtension(path)]

\* for audio_file_path in audio_files_to_process: save_file_as_draft up to
\* its first request (lines 51-63); after the last file the profile is done
FileLoop ==
    /\ pc = "file_loop"
    /\ IF fi < Len(audio_files_to_process)
       THEN LET path == audio_files_to_process[fi + 1]
                mime_type == GuessType(path)
                locals == [NoWf EXCEPT !.path = path,
                                       !.file_name = FileName(path),
                                       !.mime_type = mime_type]
                rejected(err) ==
                    /\ lastError' = err
                    /\ results' = Append(results, [path |-> path,
                                       outcome |-> "error", error |-> err])
                    /\ pc' = "file_loop"
            IN  /\ fi' = fi + 1
                /\ trace' = <<>>
                /\ wf' = locals
                /\ IF mime_type = <<>>
                   THEN rejected(OtherError("mime_unknown", "mime"))
                   ELSE IF ~StartsWithAudio(mime_type)
                   THEN rejected(OtherError("mime_invalid", "mime"))
                   ELSE /\ lastError' = NoError
                        /\ pc' = "slot"
                        /\ UNCHANGED results
                /\ UNCHANGED profileLog
       ELSE /\ profileLog' = Append(profileLog,
                   [ username |-> User, outcome |-> "ok", stage |-> pc,
                     to_process |-> audio_files_to_process,
                     captions |-> uploaded_audio_files,
                     results |-> Outcomes(results) ])
            /\ pc' = "profile_loop"
            /\ UNCHANGED <<fileVars, lastError>>
    /\ UNCHANGED <<fs, remoteVars, pi, profileVars, ptrace>>

\* a step of the workflow that went well: the events, the locals, the place
Proceed(events, locals, next) ==
    /\ trace' = trace \o events
    /\ wf' = locals
    /\ pc' = next
    /\ UNCHANGED <<fs, pi, profileLog, profileVars, fi, results, ptrace,
                   lastError>>

\* save_file_as_draft, lines 66-76: the call that follows each call
NextStepTriggerFirst(step) ==
    CASE step = "slot" -> "preflight"
      [] step = "preflight" -> "trigger"
      [] step = "trigger" -> "put"
      [] step = "put" -> "poll"
NextStep(step) ==
    CASE step = "slot" -> "preflight"
      [] step = "preflight" -> "put"
      [] step = "put" -> "trigger"
      [] step = "trigger" -> "poll"

\* _get_upload_location_info, lines 93-101: GET the signed URL
SlotGet ==
    /\ pc = "slot"
    /\ \E code \in StatusCodes :
         IF Failed2xx(code)
         THEN FileFail(StatusError("slot", code),
                       <<Ev("slot", <<>>, code, "", <<>>, <<>>)>>, wf)
         ELSE /\ Proceed(<<Ev("slot", <<>>, code, "", FreshId("slot"), <<>>)>>,
                         [wf EXCEPT !.upload_url = FreshId("url"),
                                    !.request_uuid = FreshId("slot")],
                         NextStep("slot"))
              /\ UNCHANGED remoteVars

PUT == <<"P", "U", "T">>

\* 'PUT' not in r.headers['access-control-allow-methods']
PutNotAllowedInverted(allow) == StrFind(allow, PUT) >= 0
PutNotAllowed(allow) == StrFind(allow, PUT) < 0

\* _get_upload_location_info, lines 103-112: OPTIONS on the signed URL
Preflight ==
    /\ pc = "preflight"
    /\ \E code \in StatusCodes :
         IF Failed2xx(code)
         THEN FileFail(StatusError("preflight", code),
                       <<Ev("preflight", wf.upload_url, code, "", <<>>, <<>>)>>,
                       wf)
         ELSE \E allow \in AllowMethods :
                IF allow = <<>>
                THEN FileFail(OtherError("key_error", "preflight"),
                              <<Ev("preflight", wf.upload_url, code,
                                   "no-header", <<>>, <<>>)>>, wf)
                ELSE IF PutNotAllowed(allow[1])
                THEN FileFail(OtherError("put_not_allowed", "preflight"),
                              <<Ev("preflight", wf.upload_url, code,
                                   "header", <<>>, allow[1])>>, wf)
                ELSE /\ Proceed(<<Ev("preflight", wf.upload_url, code,
                                     "header", <<>>, allow[1])>>, wf,
                                NextStep("preflight"))
                     /\ UNCHANGED remoteVars

\* _upload_audio_stream: PUT the bytes to the signed URL
Put ==
    /\ pc = "put"
    /\ \E code \in StatusCodes :
         IF Failed2xx(code)
         THEN FileFail(StatusError("put", code),
                       <<Ev("put", wf.upload_url, code, "", <<>>, <<>>)>>, wf)
         ELSE /\ Proceed(<<Ev("put", wf.upload_url, code, "", <<>>, <<>>)>>,
                         wf, NextStep("put"))
              /\ UNCHANGED remoteVars

\* _process_audio_stream: POST process_audio with the caption
Trigger ==
    /\ pc = "trigger"
    /\ \E code \in StatusCodes :
         IF Failed2xx(code)
         THEN FileFail(StatusError("trigger", code),
                       <<Ev("trigger", wf.request_uuid, code, "", <<>>,
                            wf.file_name)>>, wf)
         ELSE /\ Proceed(<<Ev("trigger", wf.request_uuid, code, "",
                              FreshId("proc"), wf.file_name)>>,
                         [wf EXCEPT !.processing_request_uuid = FreshId("proc")],
                         NextStep("trigger"))
              /\ UNCHANGED remoteVars

\* the caption the platform was given for the request being processed
TriggerCaption ==
    LET k == CHOOSE k \in 1..Len(trace) : trace[k].op = "trigger"
    IN  trace[k].text

\* lines 152-154: after the sleep, `continue` polls again
AfterUploadedBreaks == "library_wait"
AfterUploaded == "poll"

\* _finish_audio_processing_status, lines 135-158: one iteration of the
\* status polling loop; `done` holds the states at which the loop breaks
PollLoop(done) ==
    /\ pc = "poll"
    /\ \E code \in StatusCodes :
         IF Failed2xx(code)
         THEN FileFail(StatusError("poll", code),
                       <<Ev("poll", wf.processing_request_uuid, code, "",
                            <<>>, <<>>)>>, wf)
         ELSE \E state \in PollStates :
                /\ state = "uploaded" => wf.polls < MaxPolls
                /\ LET ev == Ev("poll", wf.processing_request_uuid, code,
                                state, <<>>, <<>>)
                   IN  IF state \in done
                       THEN /\ Proceed(<<[ev EXCEPT !.ret = FreshId("audio")]>>,
                                       [wf EXCEPT !.audio_id = FreshId("audio")],
                                       "library_wait")
                            /\ library' = [library EXCEPT ![User] =
                                  Append(@, Item(TriggerCaption,
                                                 FreshId("audio")))]
                            /\ UNCHANGED drafts
                       ELSE IF state = "uploaded"
                       THEN /\ Proceed(<<ev>> \o Sleep(PollBackoff),
                                       [wf EXCEPT !.polls = @ + 1],
                                       AfterUploaded)
                            /\ UNCHANGED remoteVars
                       ELSE FileFail(UnhandledState(state), <<ev>>,
                                     [wf EXCEPT !.failed_logged =
                                                   (state = "failed")])

\* if state == 'processed': break
PollBreaksOnFailed == PollLoop({"processed", "failed"})
Poll == PollLoop({"processed"})

\* the listing the platform answers with: the item looked for shows `status`
Listing(items, audio_id, status) ==
    [k \in 1..Len(items) |->
        [ caption |-> items[k].caption, audioId |-> items[k].audioId,
          audioTransformationStatus |->
              IF items[k].audioId = audio_id THEN status ELSE "finished" ]]

\* next((i for i in listing if i['audioId'] == audio_id), None)
FindItem(listing, audio_id) ==
    LET hits == {k \in 1..Len(listing) : listing[k].audioId = audio_id}
    IN  IF hits = {} THEN <<>>
        ELSE <<listing[CHOOSE k \in hits : \A j \in hits : k <= j]>>

\* status != 'finished'
NotFinishedOnlyProcessing(status) == status = "processing"
NotFinished(status) == status # "finished"

\* _finish_audio_processing_status, lines 160-174: one iteration of the
\* transformation-completion loop
LibraryWait ==
    /\ pc = "library_wait"
    /\ \E code \in StatusCodes :
         IF Failed2xx(code)
         THEN FileFail(StatusError("library", code),
                       <<Ev("library", <<>>, code, "", <<>>, <<>>)>>, wf)
         ELSE \E answer \in {"vanished"} \cup StatusValues :
                /\ answer \notin {"vanished", "finished"}
                      => wf.waits < MaxLibWaits
                /\ LET items == IF answer = "vanished"
                                THEN SelectSeq(library[User],
                                       LAMBDA i : i.audioId # wf.audio_id)
                                ELSE library[User]
                       listing == Listing(items, wf.audio_id, answer)
                       item == FindItem(listing, wf.audio_id)
                       ev == Ev("library", wf.audio_id, code, "", <<>>, <<>>)
                   IN  /\ library' = [library EXCEPT ![User] = items]
                       /\ UNCHANGED drafts
                       /\ IF item = <<>>
                          THEN Proceed(<<[ev EXCEPT !.res = "not-found"]>>,
                                       [wf EXCEPT !.listing = listing,
                                                  !.audio_data = <<>>,
                                                  !.not_found_logged = TRUE],
                                       "draft")
                          ELSE IF NotFinished(item[1].audioTransformationStatus)
                          THEN Proceed(
                                 <<[ev EXCEPT !.res =
                                       item[1].audioTransformationStatus]>>
                                   \o Sleep(LibraryBackoff),
                                 [wf EXCEPT !.listing = listing,
                                            !.waits = @ + 1],
                                 "library_wait")
                          ELSE Proceed(
                                 <<[ev EXCEPT !.res =
                                       item[1].audioTransformationStatus]>>,
                                 [wf EXCEPT !.listing = listing,
                                            !.audio_data = item],
                                 "draft")

\* the audioId of audio_data, <<>> for None
AudioIdOf(audio_data) ==
    IF audio_data = <<>> THEN <<>> ELSE audio_data[1].audioId

\* _create_episode_draft, lines 178-185: the payload, as the draft it makes
DraftPayloadPublished(audio_data, title) ==
    [ title |-> title, episodeAudios |-> <<audio_data>>, isDraft |-> FALSE,
      description |-> <<>> ]
DraftPayload(audio_data, title) ==
    [ title |-> title, episodeAudios |-> <<audio_data>>, isDraft |-> TRUE,
      description |-> <<>> ]

\* _create_episode_draft, and the end of save_file_as_draft
CreateDraft ==
    /\ pc = "draft"
    /\ \E code \in StatusCodes :
         LET ev == Ev("draft", AudioIdOf(wf.audio_data), code, "", <<>>,
                      wf.file_name)
         IN  IF Failed2xx(code)
             THEN FileFail(StatusError("draft", code), <<ev>>, wf)
             ELSE /\ drafts' = [drafts EXCEPT ![User] = Append(@,
                        DraftPayload(wf.audio_data, wf.file_name))]
                  /\ trace' = Append(trace, ev)
                  /\ results' = Append(results,
                                   [path |-> wf.path, outcome |-> "ok",
                                    error |-> NoError])
                  /\ pc' = "file_loop"
                  /\ UNCHANGED <<fs, library, pi, profileLog, profileVars, fi,
                                 wf, ptrace, lastError>>

-----------------------------------------------------------------------------
(* The run.                                                                *)

Init ==
    /\ fs \in FsChoices
    /\ library \in LibraryChoices
    /\ drafts = [u \in Usernames |-> <<>>]
    /\ pc = "profile_loop"
    /\ pi = 0
    /\ profileLog = <<>>
    /\ audio_file_paths = <<>>
    /\ uploaded_audio_files = <<>>
    /\ audio_files_to_process = <<>>
    /\ skipLog = <<>>
    /\ fi = 0
    /\ results = <<>>
    /\ wf = NoWf
    /\ trace = <<>>
    /\ ptrace = <<>>
    /\ lastError = NoError

Next ==
    \/ NextProfile
    \/ Csrf
    \/ Login
    \/ ListAudioFiles
    \/ FetchLibrary
    \/ FileLoop
    \/ SlotGet
    \/ Preflight
    \/ Put
    \/ Trigger
    \/ Poll
    \/ LibraryWait
    \/ CreateDraft

Spec == Init /\ [][Next]_vars

-----------------------------------------------------------------------------
(* The run of one directory, the program taking every step it can take:    *)
(* run is one sequential loop, and a request that is issued is answered.   *)

InitLive ==
    /\ Init
    /\ fs["d"] = <<PathAB, PathA>>

SpecLive == InitLive /\ [][Next]_vars /\ WF_vars(Next)

-----------------------------------------------------------------------------
(* AnchorSession.save_file_as_draft called for paths that did not pass      *)
(* through _list_audio_files: the session is logged in, and the method is   *)
(* called for each path of a list in turn, as run's inner loop calls it.    *)

\* the lists of paths the method is called for
DraftCalls ==
    { <<PathN, PathA>>, <<PathX, PathA>>, <<PathA, PathN>>, <<PathDot, PathN>>,
      <<PathA, PathSA>> }

InitDraft ==
    /\ fs \in FsChoices
    /\ fs["d"] = <<PathA, PathN, PathSA>>
    /\ library = [u \in Usernames |-> <<>>]
    /\ drafts = [u \in Usernames |-> <<>>]
    /\ pc = "file_loop"
    /\ pi = 1
    /\ profileLog = <<>>
    /\ audio_files_to_process \in DraftCalls
    /\ audio_file_paths = audio_files_to_process
    /\ uploaded_audio_files = <<>>
    /\ skipLog = <<>>
    /\ fi = 0
    /\ results = <<>>
    /\ wf = NoWf
    /\ trace = <<>>
    /\ ptrace = << PEv("csrf", 200, <<1, 0, "token">>),
                   PEv("login", 200, <<1, 0, "token">>),
                   PEv("library", 200, <<>>) >>
    /\ lastError = NoError

SpecDraft == InitDraft /\ [][Next]_vars

-----------------------------------------------------------------------------
(* _find_missing_audio_streams alone, on every list of paths and captions  *)
(* within the bounds.                                                      *)

PathPool == {PathA, PathAB, PathSA, PathUpA, PathDot, PathX}

SeqsUpTo(S, n) == UNION {[1..k -> S] : k \in 0..n}

InitFilter ==
    /\ fs = [r \in RootDirs |-> <<>>]
    /\ library = [u \in Usernames |-> <<>>]
    /\ drafts = [u \in Usernames |-> <<>>]
    /\ pc = "find_missing"
    /\ pi = 1
    /\ profileLog = <<>>
    /\ audio_file_paths \in SeqsUpTo(PathPool, MaxFiles)
    /\ uploaded_audio_files \in SeqsUpTo(Captions, MaxCaptions)
    /\ audio_files_to_process = <<>>
    /\ skipLog = <<>>
    /\ fi = 0
    /\ results = <<>>
    /\ wf = NoWf
    /\ trace = <<>>
    /\ ptrace = <<>>
    /\ lastError = NoError

\* run, line 23
FindMissing ==
    /\ pc = "find_missing"
    /\ audio_files_to_process' =
          FindMissingAudioStreams(audio_file_paths, uploaded_audio_files)
    /\ skipLog' = SkipLines(audio_file_paths, uploaded_audio_files, 1)
    /\ pc' = "found"
    /\ UNCHANGED <<fs, remoteVars, pi, profileLog, audio_file_paths,
                   uploaded_audio_files, fileVars, ptrace, lastError>>

NextFilter == FindMissing

SpecFilter == InitFilter /\ [][NextFilter]_vars

-----------------------------------------------------------------------------
(* Notions the properties are stated with.                                 *)

\* b occurs in c as a contiguous run of characters
Contains(c, b) ==
    \E i \in 0..Len(c) : \E j \in i..Len(c) : SubSeq(c, i + 1, j) = b

\* some caption of the list contains the base name of the path
Matched(path, captions) ==
    \E k \in 1..Len(captions) : Contains(captions[k], FileName(path))

ProfilePcs == {"csrf", "login", "list_files", "library"}
WorkflowPcs == {"slot", "preflight", "put", "trigger", "poll", "library_wait",
                "draft"}

Last(seq) == seq[Len(seq)]

-----------------------------------------------------------------------------
(* C1.  If a listing fetched by the transformation-completion loop holds   *)
(* no item with the audio identifier of the processed request, no          *)
(* create-draft request is issued for that file afterwards: the workflow   *)
(* ends there with the error logged.                                       *)
C1_NoDraftAfterItemVanished ==
    \A i \in 1..Len(trace) :
        (trace[i].op = "library" /\ trace[i].res = "not-found")
        => /\ wf.not_found_logged
           /\ \A j \in (i + 1)..Len(trace) : trace[j].op # "draft"

-----------------------------------------------------------------------------
(* C2.  Whenever the slot request or the byte PUT of a file is issued, no  *)
(* item that the account's remote library holds at that moment has a       *)
(* caption containing the file's base name.                                *)
C2_UploadOnlyIfNoCaptionMatches ==
    (Len(trace) > 0 /\ Last(trace).op \in {"slot", "put"})
    => ~Matched(Last(trace).file, CaptionsOf(library[User]))

-----------------------------------------------------------------------------
(* C3.  As claimed: the status polling loop is left only with the state    *)
(* 'processed' or by the unhandled-state error.                            *)
PollLeftProcessed ==
    /\ pc' = "library_wait"
    /\ Last(trace').op = "poll"
    /\ Last(trace').res = "processed"
PollLeftUnhandled ==
    /\ pc' = "file_loop"
    /\ lastError'.kind = "unhandled_state"
    /\ lastError'.state \notin {"processed", "uploaded"}
    /\ Last(trace').res = lastError'.state
PollLeftStatus ==
    /\ pc' = "file_loop"
    /\ lastError'.kind = "status"
    /\ lastError'.what = "poll"
    /\ lastError'.code = Last(trace').code
    /\ (lastError'.code < 200 \/ lastError'.code >= 300)

C3_PollLoopTwoExits ==
    [][(pc = "poll" /\ pc' # "poll") => PollLeftProcessed \/ PollLeftUnhandled]_vars

(* C3, amended.  The status polling loop is left in exactly three ways:    *)
(* with the state 'processed', by the unhandled-state error for a state    *)
(* that is neither 'processed' nor 'uploaded', or by the error raised for  *)
(* a non-2xx answer to the poll; a poll answered 'uploaded' stays in it.   *)
C3_PollLoopThreeExits ==
    [][/\ (pc = "poll" /\ pc' # "poll")
            => PollLeftProcessed \/ PollLeftUnhandled \/ PollLeftStatus
       /\ (pc = "poll" /\ pc' = "poll")
            => /\ Len(trace') = Len(trace) + 2
               /\ trace'[Len(trace) + 1].op = "poll"
               /\ trace'[Len(trace) + 1].res = "uploaded"]_vars

\* the loop was left by the status error after a poll answered 'uploaded'
C3_Witness ==
    /\ pc = "file_loop"
    /\ lastError.kind = "status"
    /\ lastError.what = "poll"
    /\ \E k \in 1..Len(trace) : trace[k].op = "poll" /\ trace[k].res = "uploaded"

-----------------------------------------------------------------------------
(* C4.  _find_missing_audio_streams returns the input paths, in input      *)
(* order, less exactly those whose base name occurs in some caption as a   *)
(* case-sensitive substring, and returns the same for every order of the   *)
(* captions.                                                               *)
C4_FilterSkipsIffCaptionContains ==
    pc = "found" =>
      /\ audio_files_to_process =
            SelectSeq(audio_file_paths,
                      LAMBDA p : ~Matched(p, uploaded_audio_files))
      /\ \A perm \in Permutations(1..Len(uploaded_audio_files)) :
            FindMissingAudioStreams(audio_file_paths,
                [k \in 1..Len(uploaded_audio_files) |->
                    uploaded_audio_files[perm[k]]])
            = audio_files_to_process

\* the first path is skipped on the second caption only, the second is kept
C4_Witness ==
    /\ pc = "found"
    /\ Len(audio_file_paths) = 2
    /\ Len(uploaded_audio_files) = 2
    /\ ~Contains(uploaded_audio_files[1], FileName(audio_file_paths[1]))
    /\ Contains(uploaded_audio_files[2], FileName(audio_file_paths[1]))
    /\ audio_files_to_process = <<audio_file_paths[2]>>
    /\ audio_file_paths[1] # audio_file_paths[2]

-----------------------------------------------------------------------------
(* C5.  A failure of save_file_as_draft for one file is logged and ends    *)
(* that file only: save_file_as_draft is invoked for the files of the      *)
(* to-process list one after the other, in order, whatever the outcome of  *)
(* the earlier ones, and the profile's pass ends only after the last.      *)
C5_PerFileIsolation ==
    /\ pc = "file_loop" => Len(results) = fi
    /\ pc \in WorkflowPcs
         => /\ Len(results) = fi - 1
            /\ fi <= Len(audio_files_to_process)
            /\ wf.path = audio_files_to_process[fi]
    /\ Len(results) <= Len(audio_files_to_process)
    /\ \A k \in 1..Len(results) :
         /\ results[k].path = audio_files_to_process[k]
         /\ results[k].outcome = "error" <=> results[k].error # NoError
    /\ (pc = "file_loop" /\ fi > 0 /\ results[fi].outcome = "error")
         => lastError = results[fi].error
    /\ \A k \in 1..Len(profileLog) :
         profileLog[k].stage \notin ProfilePcs
         => /\ profileLog[k].stage = "file_loop"
            /\ Len(profileLog[k].results) = Len(profileLog[k].to_process)
            /\ \A n \in 1..Len(profileLog[k].results) :
                 profileLog[k].results[n].path = profileLog[k].to_process[n]

\* a profile's pass in which the first file failed and the second got a draft
C5_Witness ==
    \E k \in 1..Len(profileLog) :
        /\ Len(profileLog[k].results) >= 2
        /\ profileLog[k].results[1].outcome = "error"
        /\ profileLog[k].results[2].outcome = "ok"

-----------------------------------------------------------------------------
(* C6.  A profile whose authentication or initial library fetch fails has  *)
(* the error logged and no file touched; the outer loop then goes on:      *)
(* every profile of the configuration gets its pass, in order, and a later *)
(* profile starts from a clean slate and processes exactly the files that  *)
(* its own directory and its own library listing call for.                 *)
StageOfProfileFailure == {"csrf", "login", "library"}

C6_PerProfileIsolation ==
    /\ Len(profileLog) <= Len(Profiles)
    /\ \A k \in 1..Len(profileLog) :
         LET e == profileLog[k]
         IN  /\ e.username = Profiles[k].anchorUsername
             /\ (e.outcome = "error" /\ e.stage \in StageOfProfileFailure)
                  => /\ e.results = <<>>
                     /\ drafts[e.username] = <<>>
                     /\ \A n \in 1..Len(library[e.username]) :
                          library[e.username][n].audioId[1] = 0
             /\ e.outcome = "ok"
                  => /\ e.to_process = FindMissingAudioStreams(
                            ListAudioFilesOf(fs[Profiles[k].rootDir]),
                            e.captions)
                     /\ Len(e.results) = Len(e.to_process)
    /\ (pc = "profile_loop" /\ pi > 0 /\ Len(profileLog) = pi
          /\ profileLog[pi].stage \in StageOfProfileFailure)
         => /\ lastError.kind = "status"
            /\ lastError.what = profileLog[pi].stage
            /\ fi = 0 /\ trace = <<>> /\ results = <<>>
    /\ pc = "done" => Len(profileLog) = Len(Profiles)
    /\ pc # "done" => Len(profileLog) \in {pi - 1, pi}
    /\ pc = "csrf"
         => /\ Len(profileLog) = pi - 1
            /\ audio_file_paths = <<>> /\ uploaded_audio_files = <<>>
            /\ audio_files_to_process = <<>> /\ fi = 0 /\ results = <<>>
            /\ ptrace = <<>> /\ trace = <<>> /\ lastError = NoError
            /\ drafts[User] = <<>>

\* the first profile failed to authenticate or to list, the second was
\* processed and its file got a draft
C6_Witness ==
    /\ pc = "done"
    /\ profileLog[1].outcome = "error"
    /\ profileLog[1].stage \in StageOfProfileFailure
    /\ profileLog[2].outcome = "ok"
    /\ Len(profileLog[2].results) = 1
    /\ profileLog[2].results[1].outcome = "ok"
    /\ Len(drafts["u2"]) = 1

-----------------------------------------------------------------------------
(* C7.  A 2xx preflight answer whose allowed methods do not list PUT ends  *)
(* the file's workflow with the 'PUT method not allowed' error: the        *)
(* preflight is the file's last request (no PUT, trigger, poll or draft),  *)
(* and the inner loop stands at the next file of the profile.              *)
ListsPut(header) ==
    \E i \in 1..(Len(header) - 2) :
        header[i] = "P" /\ header[i + 1] = "U" /\ header[i + 2] = "T"

PreflightLacksPut(ev) ==
    /\ ev.op = "preflight"
    /\ ev.code >= 200 /\ ev.code < 300
    /\ ev.res = "header"
    /\ ~ListsPut(ev.text)

-----------------------------------------------------------------------------
(* C8.  A local file whose base name occurs in a caption of the listing    *)
(* fetched for the profile is skipped: an info line is logged for it, and  *)
(* save_file_as_draft is never invoked for it, so no request of any kind   *)
(* is issued for it and no error is logged for it.                         *)
C8_SkippedFilesIssueNoRequest ==
    pc \in WorkflowPcs \cup {"file_loop"} =>
      \A n \in 1..Len(audio_file_paths) :
        LET p == audio_file_paths[n]
        IN  Matched(p, uploaded_audio_files)
            => /\ \A k \in 1..Len(trace) : trace[k].file # p
               /\ wf.path # p
               /\ \A k \in 1..Len(results) : results[k].path # p
               /\ \A k \in 1..Len(audio_files_to_process) :
                    audio_files_to_process[k] # p
               /\ \E k \in 1..Len(skipLog) :
                    /\ skipLog[k].path = p
                    /\ Contains(skipLog[k].caption, FileName(p))
                    /\ \E m \in 1..Len(uploaded_audio_files) :
                         uploaded_audio_files[m] = skipLog[k].caption

\* one file of the profile was skipped and another one got its draft
C8_Witness ==
    /\ pc = "file_loop"
    /\ Len(skipLog) = 1
    /\ Len(audio_file_paths) = 2
    /\ Len(results) = 1
    /\ results[1].outcome = "ok"
    /\ Last(trace).op = "draft"

-----------------------------------------------------------------------------
(* C9.  The transformation-completion loop hands on a library item only    *)
(* when the item's status is 'finished'; on any other status of the item   *)
(* it sleeps and fetches the listing again.  A draft that references an    *)
(* item references the item of the last listing fetched, with status       *)
(* 'finished'.                                                             *)
C9_ReturnsOnlyFinishedItem ==
    /\ wf.audio_data # <<>>
         => /\ wf.audio_data[1].audioTransformationStatus = "finished"
            /\ wf.audio_data[1].audioId = wf.audio_id
            /\ \E n \in 1..Len(wf.listing) : wf.listing[n] = wf.audio_data[1]
    /\ \A k \in 1..Len(trace) :
         /\ (trace[k].op = "library" /\ trace[k].code = 200
               /\ trace[k].res \notin {"finished", "not-found"})
              => /\ k < Len(trace)
                 /\ trace[k + 1].op = "sleep"
                 /\ k + 1 = Len(trace) => pc = "library_wait"
                 /\ k + 1 < Len(trace) => trace[k + 2].op = "library"
         /\ (trace[k].op = "draft" /\ trace[k].arg # <<>>)
              => /\ k > 1
                 /\ trace[k - 1].op = "library"
                 /\ trace[k - 1].res = "finished"
                 /\ trace[k].arg = wf.audio_id
                 /\ wf.audio_data # <<>>
    /\ \A u \in Usernames : \A n \in 1..Len(drafts[u]) :
         drafts[u][n].episodeAudios[1] # <<>>
         => drafts[u][n].episodeAudios[1][1].audioTransformationStatus
               = "finished"

\* the item was seen 'failed', then 'processing', then 'finished', and the
\* draft was created with it
C9_Witness ==
    /\ Len(trace) >= 6
    /\ Last(trace).op = "draft" /\ Last(trace).code = 200
    /\ Last(trace).arg # <<>>
    /\ \E k \in 1..Len(trace) : trace[k].op = "library" /\ trace[k].res = "failed"
    /\ \E k \in 1..Len(trace) :
         trace[k].op = "library" /\ trace[k].res = "processing"

-----------------------------------------------------------------------------
(* C10.  Between two consecutive status polls of a file, and between two   *)
(* consecutive listing fetches of its transformation-completion loop, the  *)
(* client sleeps 10; a poll answered 'uploaded' is followed by that sleep  *)
(* and then by a poll of the same request.                                 *)
IsSleep10(ev) == ev.op = "sleep" /\ ev.code = 10

C10_NoBusyLoop ==
    /\ \A i \in 1..Len(trace) : \A j \in (i + 1)..Len(trace) :
         (trace[i].op = trace[j].op /\ trace[i].op \in {"poll", "library"})
         => \E m \in (i + 1)..(j - 1) : IsSleep10(trace[m])
    /\ \A i \in 1..Len(trace) :
         (trace[i].op = "poll" /\ trace[i].code = 200
            /\ trace[i].res = "uploaded")
         => /\ i < Len(trace)
            /\ IsSleep10(trace[i + 1])
            /\ i + 1 = Len(trace)
                 => /\ pc = "poll"
                    /\ wf.processing_request_uuid = trace[i].arg
            /\ i + 1 < Len(trace)
                 => /\ trace[i + 2].op = "poll"
                    /\ trace[i + 2].arg = trace[i].arg

\* two polls answered 'uploaded' and two listings not yet 'finished', each
\* followed by the sleep and the next request
C10_Witness ==
    /\ Cardinality({k \in 1..Len(trace) :
                      trace[k].op = "poll" /\ trace[k].res = "uploaded"}) = 2
    /\ Cardinality({k \in 1..Len(trace) :
                      trace[k].op = "library"
                      /\ trace[k].res \in {"processing", "failed"}}) = 2
    /\ Cardinality({k \in 1..Len(trace) : IsSleep10(trace[k])}) = 4
    /\ Last(trace).op = "library"
    /\ Last(trace).res = "finished"

-----------------------------------------------------------------------------
(* C11.  A 2xx status poll answered 'failed' is handled as a poll answered *)
(* with an unrecognized state is: the error is logged, the poll is the     *)
(* file's last request (no sleep, no further poll, no library fetch, no    *)
(* draft, no cleanup request), and the workflow of the file ends with the  *)
(* unhandled-state error naming the state.                                 *)
RequestOps == {"slot", "preflight", "put", "trigger", "poll", "library",
               "draft"}

PollNotHandled(ev) ==
    /\ ev.op = "poll"
    /\ ev.code >= 200 /\ ev.code < 300
    /\ ev.res \notin {"processed", "uploaded"}

C11_FailedPollIsUnhandled ==
    /\ \A k \in 1..Len(trace) :
         PollNotHandled(trace[k])
         => /\ k = Len(trace)
            /\ \/ pc = "file_loop"
               \/ pc = "profile_loop" /\ fi = Len(audio_files_to_process)
            /\ lastError = UnhandledState(trace[k].res)
            /\ Len(results) = fi
            /\ results[fi].path = trace[k].file
            /\ results[fi].error = lastError
            /\ wf.audio_id = <<>> /\ wf.audio_data = <<>>
            /\ wf.failed_logged <=> trace[k].res = "failed"
            /\ Len(drafts[User]) =
                 Cardinality({n \in 1..(fi - 1) : results[n].outcome = "ok"})
    /\ \A k \in 1..Len(trace) : trace[k].op \in RequestOps \cup {"sleep"}

\* the poll was answered 'uploaded' and then 'failed'; a second file waits
C11_Witness ==
    /\ pc = "file_loop"
    /\ Len(trace) >= 3
    /\ Last(trace).op = "poll" /\ Last(trace).res = "failed"
    /\ trace[Len(trace) - 2].op = "poll"
    /\ trace[Len(trace) - 2].res = "uploaded"
    /\ wf.failed_logged
    /\ fi = 1 /\ Len(audio_files_to_process) = 2

-----------------------------------------------------------------------------
(* C12.  No request is re-issued after a failure.  Within one file's       *)
(* workflow the slot GET, the preflight, the byte PUT, the trigger POST    *)
(* and the create-draft POST are issued at most once; a request answered   *)
(* non-2xx is the last request of the file (of the profile, for the        *)
(* authentication and the first listing) and its error is the file's       *)
(* result; a request is repeated only after a 2xx poll answered 'uploaded' *)
(* or a 2xx listing whose item is not 'finished'.                          *)
OnceOps == {"slot", "preflight", "put", "trigger", "draft"}

Answered2xx(ev) == ev.code >= 200 /\ ev.code < 300

CausesRepeat(ev) ==
    /\ Answered2xx(ev)
    /\ \/ ev.op = "poll" /\ ev.res = "uploaded"
       \/ ev.op = "library" /\ ev.res \in StatusValues \ {"finished"}

C12_NoRetryOnFailure ==
    /\ \A op \in OnceOps :
         Cardinality({k \in 1..Len(trace) : trace[k].op = op}) <= 1
    /\ \A k \in 1..Len(trace) :
         (trace[k].op \in RequestOps /\ ~Answered2xx(trace[k]))
         => /\ k = Len(trace)
            /\ \/ pc = "file_loop"
               \/ pc = "profile_loop" /\ fi = Len(audio_files_to_process)
            /\ Len(results) = fi
            /\ results[fi].outcome = "error"
            /\ results[fi].error = StatusError(trace[k].op, trace[k].code)
    /\ \A i \in 1..Len(trace) : \A j \in (i + 1)..Len(trace) :
         (trace[i].op \in RequestOps /\ trace[j].op = trace[i].op)
         => CausesRepeat(trace[i])
    /\ \A i \in 1..Len(ptrace) :
         /\ \A j \in (i + 1)..Len(ptrace) : ptrace[j].op # ptrace[i].op
         /\ ~Answered2xx(ptrace[i])
              => /\ i = Len(ptrace)
                 /\ pc = "profile_loop"
                 /\ profileLog[pi].outcome = "error"
                 /\ profileLog[pi].stage = ptrace[i].op
                 /\ trace = <<>>

\* the poll was repeated after 'uploaded' and the listing after 'processing';
\* the second listing was answered non-2xx and the file ended there
C12_Witness ==
    /\ pc = "file_loop"
    /\ Len(trace) > 0
    /\ Last(trace).op = "library" /\ ~Answered2xx(Last(trace))
    /\ \E k \in 1..Len(trace) : trace[k].op = "library" /\ CausesRepeat(trace[k])
    /\ \E k \in 1..Len(trace) : trace[k].op = "poll" /\ CausesRepeat(trace[k])
    /\ results[fi].error = StatusError("library", Last(trace).code)

-----------------------------------------------------------------------------
(* C13.  For each profile the CSRF GET is the first request and the login  *)
(* POST the second; the login is issued only after a 2xx CSRF answer and   *)
(* carries the token of that answer; when either is answered non-2xx the   *)
(* profile issues no further request of any kind.  Every other request of  *)
(* a profile is issued after that profile's login was answered 2xx.        *)
AuthStages == {"csrf", "login"}

C13_AuthenticationOrder ==
    /\ Len(ptrace) <= 3
    /\ Len(ptrace) >= 1
         => /\ ptrace[1].op = "csrf"
            /\ Answered2xx(ptrace[1]) <=> ptrace[1].token # <<>>
            /\ Answered2xx(ptrace[1]) => ptrace[1].token = <<pi, 0, "token">>
    /\ Len(ptrace) >= 2
         => /\ ptrace[2].op = "login"
            /\ Answered2xx(ptrace[1])
            /\ ptrace[2].token = ptrace[1].token
    /\ Len(ptrace) >= 3
         => /\ ptrace[3].op = "library"
            /\ Answered2xx(ptrace[2])
    /\ pc = "login" => Len(ptrace) = 1 /\ Answered2xx(ptrace[1])
    /\ pc \in {"list_files", "library"}
         => Len(ptrace) = 2 /\ Answered2xx(ptrace[2])
    /\ (pc \in WorkflowPcs \/ trace # <<>> \/ fi > 0)
         => /\ Len(ptrace) = 3
            /\ \A k \in 1..3 : Answered2xx(ptrace[k])
    /\ (pc = "profile_loop" /\ pi > 0 /\ profileLog[pi].stage \in AuthStages)
         => /\ profileLog[pi].outcome = "error"
            /\ Last(ptrace).op = profileLog[pi].stage
            /\ ~Answered2xx(Last(ptrace))
            /\ lastError = StatusError(Last(ptrace).op, Last(ptrace).code)
            /\ trace = <<>> /\ fi = 0 /\ results = <<>>
            /\ audio_file_paths = <<>> /\ uploaded_audio_files = <<>>
            /\ drafts[User] = <<>>
            /\ library[User] \in {lib[User] : lib \in LibraryChoices}

\* the first profile's login was answered non-2xx; the second profile logged
\* in with its own token and is uploading its file
C13_Witness ==
    /\ pi = 2
    /\ profileLog[1].stage = "login"
    /\ pc = "put"
    /\ Len(ptrace) = 3
    /\ ptrace[2].token = <<2, 0, "token">>

-----------------------------------------------------------------------------
(* C14.  As claimed: a file's workflow in which every request was answered *)
(* 2xx, the polls reported only 'uploaded' and then 'processed', and the   *)
(* library item stayed listed until 'finished', has issued exactly one     *)
(* create-draft request, titled with the file's base name, isDraft true,   *)
(* description empty.                                                      *)
HappyAnswers ==
    \A k \in 1..Len(trace) :
        trace[k].op \in RequestOps
        => /\ Answered2xx(trace[k])
           /\ trace[k].op = "poll" => trace[k].res \in {"uploaded", "processed"}
           /\ trace[k].op = "library" => trace[k].res # "not-found"

AllowsPut ==
    \A k \in 1..Len(trace) :
        trace[k].op = "preflight"
        => trace[k].res = "header" /\ ListsPut(trace[k].text)

DraftIssuedOnce ==
    /\ Cardinality({k \in 1..Len(trace) : trace[k].op = "draft"}) = 1
    /\ Last(trace).op = "draft"
    /\ Last(trace).text = FileName(Last(trace).file)
    /\ Last(trace).file = audio_files_to_process[fi]
    /\ Len(drafts[User]) > 0
    /\ Last(drafts[User]).title = FileName(audio_files_to_process[fi])
    /\ Last(drafts[User]).isDraft = TRUE
    /\ Last(drafts[User]).description = <<>>
    /\ Last(drafts[User]).episodeAudios = <<wf.audio_data>>
    /\ wf.audio_data # <<>>
    /\ Len(drafts[User]) =
          Cardinality({n \in 1..fi : results[n].outcome = "ok"})
    /\ results[fi].outcome = "ok"

WorkflowEnded ==
    /\ pc = "file_loop"
    /\ fi > 0
    /\ Len(results) = fi
    /\ trace # <<>>

C14_HappyPathAsClaimed ==
    (WorkflowEnded /\ HappyAnswers) => DraftIssuedOnce

(* C14, amended.  A workflow that was started ends; when every request was *)
(* answered 2xx, the preflight answer listed PUT, the polls reported only  *)
(* 'uploaded' and then 'processed', and the library item stayed listed     *)
(* until 'finished', it ends having issued exactly one create-draft        *)
(* request, titled with the file's base name, isDraft true, description    *)
(* empty; the run then moves on to the next file of the profile.           *)
FileIndexes == 1..MaxFiles

WorkflowStarted(p, n) == pi = p /\ fi = n /\ pc = "slot"

WorkflowEndedWell(p, n) ==
    /\ pi = p /\ fi = n
    /\ WorkflowEnded
    /\ (HappyAnswers /\ AllowsPut) => DraftIssuedOnce

MovedOn(p, n) ==
    /\ pi = p
    /\ \/ fi = n + 1 /\ pc \in WorkflowPcs \cup {"file_loop"}
       \/ pc = "profile_loop" /\ n = Len(audio_files_to_process)

C14_HappyPathEndsInDraft ==
    /\ []((WorkflowEnded /\ HappyAnswers /\ AllowsPut) => DraftIssuedOnce)
    /\ \A p \in 1..Len(Profiles) : \A n \in FileIndexes :
         /\ WorkflowStarted(p, n) ~> WorkflowEndedWell(p, n)
         /\ WorkflowEndedWell(p, n) ~> MovedOn(p, n)

\* the second file of the profile got its draft after a poll answered
\* 'uploaded' and a listing not yet 'finished'
C14_Witness ==
    /\ WorkflowEnded /\ HappyAnswers /\ AllowsPut /\ DraftIssuedOnce
    /\ fi = 2
    /\ \E k \in 1..Len(trace) : trace[k].op = "poll" /\ trace[k].res = "uploaded"
    /\ \E k \in 1..Len(trace) :
         trace[k].op = "library" /\ trace[k].res = "processing"

-----------------------------------------------------------------------------
(* C15.  The status polling loop counts nothing: after any number of 2xx   *)
(* polls answered 'uploaded' the client stands at the poll of the same     *)
(* request again; as long as only 'uploaded' was reported the file has no  *)
(* result and no error, no listing was fetched for it and no draft         *)
(* created, and no later file or profile was started.                      *)
UploadedPolls ==
    {k \in 1..Len(trace) :
        trace[k].op = "poll" /\ Answered2xx(trace[k])
        /\ trace[k].res = "uploaded"}

C15_PollingHasNoCeiling ==
    /\ pc = "poll"
         => /\ ENABLED Poll
            /\ wf.polls = Cardinality(UploadedPolls)
            /\ \A k \in 1..Len(trace) :
                 /\ trace[k].op = "poll"
                      => /\ k \in UploadedPolls
                         /\ trace[k].arg = wf.processing_request_uuid
                 /\ trace[k].op \notin {"library", "draft"}
                 /\ trace[k].file = audio_files_to_process[fi]
            /\ lastError = NoError
            /\ Len(results) = fi - 1
            /\ wf.audio_id = <<>> /\ wf.audio_data = <<>>
            /\ Len(profileLog) = pi - 1
    /\ (UploadedPolls # {} /\ Last(trace).op = "sleep"
          /\ Len(trace) - 1 \in UploadedPolls)
         => pc = "poll"

\* as many polls answered 'uploaded' as the bound allows, the second file
\* of the profile still in its polling loop
C15_Witness ==
    /\ pc = "poll"
    /\ wf.polls = MaxPolls
    /\ Cardinality(UploadedPolls) = MaxPolls
    /\ fi = 2

-----------------------------------------------------------------------------
(* C16.  save_file_as_draft called for a path whose MIME type cannot be    *)
(* determined, or is not an audio type, raises before any request: the     *)
(* file's trace stays empty (no slot request, preflight, upload, trigger,  *)
(* poll, listing or draft), the platform's state is untouched by it, the   *)
(* error is the file's result, and the loop stands at the next path.       *)
IsAudioFile(path) ==
    /\ GuessType(path) # <<>>
    /\ GuessType(path)[1].type = "audio"

MimeErrorOf(path) ==
    IF GuessType(path) = <<>>
    THEN OtherError("mime_unknown", "mime")
    ELSE OtherError("mime_invalid", "mime")

C16_MimeRejectedBeforeRequests ==
    /\ \A k \in 1..Len(trace) : IsAudioFile(trace[k].file)
    /\ pc \in WorkflowPcs => IsAudioFile(wf.path)
    /\ Len(results) <= Len(audio_files_to_process)
    /\ pc = "file_loop" => Len(results) = fi
    /\ \A k \in 1..Len(results) :
         /\ results[k].path = audio_files_to_process[k]
         /\ ~IsAudioFile(results[k].path)
              => /\ results[k].outcome = "error"
                 /\ results[k].error = MimeErrorOf(results[k].path)
         /\ IsAudioFile(results[k].path)
              => results[k].error.kind \notin {"mime_unknown", "mime_invalid"}
    /\ (fi > 0 /\ Len(results) = fi
          /\ ~IsAudioFile(audio_files_to_process[fi]))
         => /\ trace = <<>>
            /\ lastError = MimeErrorOf(audio_files_to_process[fi])
            /\ wf.upload_url = <<>> /\ wf.request_uuid = <<>>
            /\ wf.audio_id = <<>>
    /\ pc # "done"
         => /\ Len(drafts[User]) =
                 Cardinality({k \in 1..Len(results) :
                                 results[k].outcome = "ok"})
            /\ \A n \in 1..Len(drafts[User]) :
                 \E k \in 1..Len(results) :
                    /\ IsAudioFile(results[k].path)
                    /\ drafts[User][n].title = FileName(results[k].path)
            /\ \A n \in 1..Len(library[User]) :
                 \/ library[User][n].audioId[1] = 0
                 \/ IsAudioFile(
                       audio_files_to_process[library[User][n].audioId[2]])

\* the first path was rejected for its MIME type with no request issued, and
\* the second path, an audio file, got its draft
C16_Witness ==
    /\ pc = "file_loop"
    /\ fi = 2
    /\ ~IsAudioFile(audio_files_to_process[1])
    /\ results[1].error.kind \in {"mime_unknown", "mime_invalid"}
    /\ results[2].outcome = "ok"
    /\ Last(trace).op = "draft"
    /\ Len(drafts[User]) = 1

-----------------------------------------------------------------------------
(* C17.  The requests of one file's workflow occur in the order slot GET,  *)
(* preflight, byte PUT, trigger POST, status polls, listing fetches,       *)
(* create-draft POST.  A request is issued only when every earlier request *)
(* of the file was answered 2xx and every earlier kind of request was      *)
(* issued; a listing is fetched only after a poll answered 'processed'.    *)
(* So a draft is created only for a file whose bytes were PUT and whose    *)
(* processing was triggered.                                               *)
WorkflowOrder ==
    <<"slot", "preflight", "put", "trigger", "poll", "library", "draft">>

Rank(op) == CHOOSE r \in 1..Len(WorkflowOrder) : WorkflowOrder[r] = op

Requests == {k \in 1..Len(trace) : trace[k].op \in RequestOps}

\* the request issued last when the workflow stands at a place
LastRequestAt(place) ==
    CASE place = "preflight" -> {"slot"}
      [] place = "put" -> {"preflight"}
      [] place = "trigger" -> {"put"}
      [] place = "poll" -> {"trigger", "poll"}
      [] place = "library_wait" -> {"poll", "library"}
      [] place = "draft" -> {"library"}

C17_WorkflowOrder ==
    /\ \A j \in Requests :
         /\ \A i \in Requests :
              i < j => /\ Rank(trace[i].op) <= Rank(trace[j].op)
                       /\ Answered2xx(trace[i])
         /\ \A r \in 1..(Rank(trace[j].op) - 1) :
              \E i \in Requests : i < j /\ trace[i].op = WorkflowOrder[r]
         /\ trace[j].op = "put"
              => \E i \in Requests :
                    /\ i < j /\ trace[i].op = "preflight"
                    /\ ListsPut(trace[i].text)
         /\ trace[j].op = "library"
              => /\ trace[j - 1].op \in {"poll", "sleep"}
                 /\ \E i \in Requests :
                       /\ i < j /\ trace[i].op = "poll"
                       /\ trace[i].res = "processed"
                       /\ \A m \in Requests :
                            (m > i /\ m < j) => trace[m].op = "library"
         /\ trace[j].op = "draft"
              => /\ trace[j - 1].op = "library"
                 /\ trace[j - 1].res \in {"finished", "not-found"}
    /\ pc \in WorkflowPcs
         => Len(drafts[User]) =
               Cardinality({n \in 1..(fi - 1) : results[n].outcome = "ok"})
    /\ (pc \in WorkflowPcs /\ pc # "slot")
         => /\ Requests # {}
            /\ \A k \in Requests : Answered2xx(trace[k])
            /\ \E k \in Requests :
                 /\ \A m \in Requests : m <= k
                 /\ trace[k].op \in LastRequestAt(pc)
    /\ pc = "slot" => trace = <<>>

\* a whole workflow: each kind of request, a repeated poll and a repeated
\* listing fetch, and the draft at the end
C17_Witness ==
    /\ pc = "file_loop"
    /\ \A r \in 1..Len(WorkflowOrder) :
         \E k \in Requests : trace[k].op = WorkflowOrder[r]
    /\ Cardinality({k \in Requests : trace[k].op = "poll"}) = 2
    /\ Cardinality({k \in Requests : trace[k].op = "library"}) = 2
    /\ Answered2xx(Last(trace))

-----------------------------------------------------------------------------
(* C18.  Identifiers are threaded through one file's workflow: the trigger *)
(* POST names the request identifier the file's slot request returned;     *)
(* every poll names the processing identifier the file's trigger returned, *)
(* not the slot's; the listing is searched for the audioId the poll        *)
(* answered 'processed' returned; and the draft's episodeAudios holds      *)
(* exactly the library item of that audioId.  No draft holds the audio of  *)
(* another file.                                                           *)
EventsOf(op) == {k \in 1..Len(trace) : trace[k].op = op}

ThreadedRequests ==
    /\ \A k \in EventsOf("trigger") :
         \E i \in EventsOf("slot") :
            /\ i < k
            /\ trace[i].ret # <<>>
            /\ trace[k].arg = trace[i].ret
            /\ trace[k].file = trace[i].file
    /\ \A k \in EventsOf("poll") :
         /\ \E i \in EventsOf("trigger") :
               /\ i < k
               /\ trace[i].ret # <<>>
               /\ trace[k].arg = trace[i].ret
               /\ trace[k].file = trace[i].file
         /\ \A i \in EventsOf("slot") : trace[k].arg # trace[i].ret
    /\ \A k \in EventsOf("library") :
         Answered2xx(trace[k])
         => \E i \in EventsOf("poll") :
               /\ i < k
               /\ trace[i].res = "processed"
               /\ trace[i].ret # <<>>
               /\ trace[k].arg = trace[i].ret

DraftHoldsTheItem ==
    \A k \in EventsOf("draft") :
        \E i \in EventsOf("poll") :
           /\ trace[i].res = "processed"
           /\ trace[k].arg = trace[i].ret
           /\ wf.audio_data # <<>>
           /\ wf.audio_data[1].audioId = trace[i].ret

DraftsOfOwnAudio ==
    \A u \in Usernames : \A n \in 1..Len(drafts[u]) :
        LET held == drafts[u][n].episodeAudios[1]
        IN  held # <<>>
            => /\ held[1].caption = drafts[u][n].title
               /\ held[1].audioId[1] # 0
               /\ Profiles[held[1].audioId[1]].anchorUsername = u
               /\ \A m \in 1..Len(drafts[u]) :
                    (m # n /\ drafts[u][m].episodeAudios[1] # <<>>)
                    => drafts[u][m].episodeAudios[1][1].audioId
                          # held[1].audioId
               /\ (u = User /\ pc \notin {"done", "csrf"})
                    => /\ held[1].audioId[2] <= Len(results)
                       /\ results[held[1].audioId[2]].outcome = "ok"
                       /\ FileName(results[held[1].audioId[2]].path)
                             = drafts[u][n].title

C18_IdentifierThreading ==
    /\ ThreadedRequests
    /\ DraftHoldsTheItem
    /\ DraftsOfOwnAudio

-----------------------------------------------------------------------------
(* C19.  A non-2xx answer to the listing has the scope of the place where  *)
(* the listing is fetched.  At the initial fetch it ends the profile: the  *)
(* profile is logged failed with no file started and no request issued for *)
(* any file.  At a re-fetch inside a file's transformation-completion loop *)
(* it ends that file only: the error is the file's result, no draft is     *)
(* created for it, and the files after it get their turn.                  *)
ListingFailed(ev) == ev.op = "library" /\ ~Answered2xx(ev)

C19_ListingFailureScope ==
    /\ (ptrace # <<>> /\ ListingFailed(Last(ptrace)))
         => /\ pc = "profile_loop"
            /\ Len(profileLog) = pi
            /\ profileLog[pi].outcome = "error"
            /\ profileLog[pi].stage = "library"
            /\ profileLog[pi].results = <<>>
            /\ lastError = StatusError("library", Last(ptrace).code)
            /\ fi = 0 /\ results = <<>> /\ trace = <<>>
            /\ audio_files_to_process = <<>>
            /\ drafts[User] = <<>>
            /\ library[User] \in {lib[User] : lib \in LibraryChoices}
    /\ \A k \in 1..Len(profileLog) :
         profileLog[k].stage = "library"
         => /\ profileLog[k].outcome = "error"
            /\ profileLog[k].results = <<>>
            /\ drafts[profileLog[k].username] = <<>>
    /\ \A k \in 1..Len(trace) :
         ListingFailed(trace[k])
         => /\ k = Len(trace)
            /\ \/ pc = "file_loop"
               \/ pc = "profile_loop" /\ fi = Len(audio_files_to_process)
            /\ Len(results) = fi
            /\ results[fi].path = trace[k].file
            /\ results[fi].error = StatusError("library", trace[k].code)
            /\ lastError = results[fi].error
            /\ Len(profileLog) = pi
                 => /\ profileLog[pi].outcome = "ok"
                    /\ profileLog[pi].stage = "file_loop"
                    /\ Len(profileLog[pi].results)
                          = Len(audio_files_to_process)
    /\ \A k \in 1..Len(results) :
         (results[k].error.kind = "status" /\ results[k].error.what = "library")
         => /\ results[k].outcome = "error"
            /\ Len(ptrace) = 3 /\ Answered2xx(Last(ptrace))
            /\ Len(drafts[User]) <= Len(results) - 1
            /\ Len(drafts[User]) =
                  Cardinality({n \in 1..Len(results) : results[n].outcome = "ok"})
            /\ fi > k
                 => audio_files_to_process[k + 1] \in
                       {wf.path} \cup {results[n].path : n \in 1..Len(results)}
            /\ pc = "profile_loop"
                 => Len(results) = Len(audio_files_to_process)

\* the first file's listing re-fetch was answered non-2xx; the second file
\* of the same profile was processed and got its draft
C19_Witness ==
    /\ pc = "file_loop"
    /\ fi = 2
    /\ Len(results) = 2
    /\ results[1].error.kind = "status"
    /\ results[1].error.what = "library"
    /\ results[2].outcome = "ok"
    /\ Len(drafts[User]) = 1

-----------------------------------------------------------------------------
(* C20.  When the profile's root directory holds a file whose MIME type    *)
(* cannot be determined, discovery raises and the profile's pass ends      *)
(* after authentication: the listing is not fetched, no file of the        *)
(* profile is started (an audio file no more than another), the error is   *)
(* logged for the profile, and the profiles after it get their pass.       *)
UnknownMime(path) == GuessType(path) = <<>>

HoldsUnknownMime(root) ==
    \E k \in 1..Len(fs[root]) : UnknownMime(fs[root][k])

C20_DiscoveryRaisesOnUnknownMime ==
    /\ (pi > 0 /\ HoldsUnknownMime(Profile.rootDir))
         => /\ pc \in {"csrf", "login", "list_files", "profile_loop", "done"}
            /\ Len(ptrace) <= 2
            /\ \A k \in 1..Len(ptrace) : ptrace[k].op \in AuthStages
            /\ trace = <<>> /\ fi = 0 /\ results = <<>>
            /\ audio_file_paths = <<>>
            /\ audio_files_to_process = <<>>
            /\ skipLog = <<>>
    /\ \A k \in 1..Len(profileLog) :
         LET e == profileLog[k]
             root == Profiles[k].rootDir
         IN  /\ e.stage = "list_files" <=>
                  (HoldsUnknownMime(root) /\ e.stage \notin AuthStages)
             /\ e.stage = "list_files"
                  => /\ e.outcome = "error"
                     /\ e.username = Profiles[k].anchorUsername
                     /\ e.results = <<>> /\ e.to_process = <<>>
                     /\ drafts[e.username] = <<>>
                     /\ library[e.username]
                           \in {lib[e.username] : lib \in LibraryChoices}
    /\ (pc = "profile_loop" /\ pi > 0 /\ Len(profileLog) = pi
          /\ profileLog[pi].stage = "list_files")
         => /\ lastError = OtherError("attribute_error", "list_files")
            /\ Len(ptrace) = 2
            /\ Answered2xx(ptrace[1]) /\ Answered2xx(ptrace[2])
    /\ (\E k \in 1..Len(profileLog) : profileLog[k].stage = "list_files")
         => /\ pc = "done" => Len(profileLog) = Len(Profiles)
            /\ pc # "done" => Len(profileLog) \in {pi - 1, pi}
            /\ pc \in ProfilePcs \cup WorkflowPcs \cup {"file_loop"}
                 => Len(profileLog) = pi - 1

\* the first profile's directory holds an audio file and a file of unknown
\* type: discovery raised; the second profile had its pass and its draft
C20_Witness ==
    /\ pc = "done"
    /\ profileLog[1].stage = "list_files"
    /\ \E k \in 1..Len(fs["d"]) : IsAudioFile(fs["d"][k])
    /\ \E k \in 1..Len(fs["d"]) : UnknownMime(fs["d"][k])
    /\ profileLog[2].outcome = "ok"
    /\ Len(profileLog[2].results) = 1
    /\ Len(drafts["u2"]) = 1
    /\ drafts["u1"] = <<>>

=============================================================================
